---- MODULE Spec2Model ----
(***************************************************************************)
(* A model of the two command-line tools of add-text-to-vid:               *)
(*   add-text-to-vid.py  parses an instruction file and burns each text    *)
(*                       overlay onto a video, one ffmpeg run per overlay;  *)
(*   preview-fonts.py    renders one preview clip per font file.           *)
(* Strings are sequences of one-character strings; a csv row is a sequence *)
(* of such fields (the output of csv.reader); a path is <<dir, base, n>>.  *)
(* Timestamps and integers are digit strings with an optional sign; the    *)
(* float values of convert_to_seconds are modelled by the integers they    *)
(* equal.                                                                  *)
(***************************************************************************)
EXTENDS Integers, Sequences, FiniteSets, TLC

VARIABLES
    args,         \* overlay tool: the parsed command line
    fs0,          \* overlay tool: the file system when the run started
    fs,           \* overlay tool: the file system, path -> content
    pc,           \* overlay tool: position in main()
    texts,        \* overlay tool: result of parse_text_file
    tmpdir,       \* overlay tool: "none", "live" or "removed"
    temp_video,   \* overlay tool: the current working video path
    idx,          \* overlay tool: loop index of enumerate(texts)
    log,          \* overlay tool: external invocations made, in order
    exit_status,  \* overlay tool: {} while running, then {0} or {1}
    font_files,   \* preview tool: the files os.walk yields, in order
    ppc,          \* preview tool: position in main()
    pidx,         \* preview tool: fonts consumed from list_fonts
    plog,         \* preview tool: ffmpeg invocations made, in order
    printed,      \* preview tool: lines printed, in order
    pexit,        \* preview tool: {} while running, then {0} or {1}
    time_str,     \* time parser: the argument of convert_to_seconds
    tpc,          \* time parser: "call" or "returned"
    tresult       \* time parser: the value returned, or the error raised

ovars == <<args, fs0, fs, pc, texts, tmpdir, temp_video, idx, log, exit_status>>
pvars == <<font_files, ppc, pidx, plog, printed, pexit>>
tvars == <<time_str, tpc, tresult>>
vars == <<ovars, pvars, tvars>>

(***************************************************************************)
(* Bounds of the model                                                     *)
(***************************************************************************)
MaxRows == 3
MaxFontFiles == 3
MaxTimeLen == 5

(***************************************************************************)
(* Strings and numbers                                                     *)
(***************************************************************************)
Digits == {"0", "1", "2", "3", "4", "5", "6", "7", "8", "9"}

DigitVal(c) ==
    CASE c = "0" -> 0 [] c = "1" -> 1 [] c = "2" -> 2 [] c = "3" -> 3
      [] c = "4" -> 4 [] c = "5" -> 5 [] c = "6" -> 6 [] c = "7" -> 7
      [] c = "8" -> 8 [] c = "9" -> 9

RECURSIVE DigitsValue(_)
DigitsValue(s) ==
    IF Len(s) = 0 THEN 0
    ELSE DigitsValue(SubSeq(s, 1, Len(s) - 1)) * 10 + DigitVal(s[Len(s)])

AllDigits(s) == Len(s) > 0 /\ \A i \in 1..Len(s) : s[i] \in Digits

\* Python's int(s) / float(s) on a string of sign and digit characters:
\* [ok |-> FALSE] stands for the ValueError raised.
ParseNumber(s) ==
    IF Len(s) > 0 /\ s[1] \in {"-", "+"}
    THEN IF AllDigits(Tail(s))
         THEN [ok |-> TRUE,
               value |-> IF s[1] = "-" THEN 0 - DigitsValue(Tail(s))
                         ELSE DigitsValue(Tail(s))]
         ELSE [ok |-> FALSE, value |-> 0]
    ELSE IF AllDigits(s)
         THEN [ok |-> TRUE, value |-> DigitsValue(s)]
         ELSE [ok |-> FALSE, value |-> 0]

int(s) == ParseNumber(s)

float(s) == ParseNumber(s)

startswith(s, c) == Len(s) > 0 /\ s[1] = c

\* str.split(sep): always at least one part, empty parts kept.
RECURSIVE split(_, _)
split(s, sep) ==
    IF \E i \in 1..Len(s) : s[i] = sep
    THEN LET i == CHOOSE k \in 1..Len(s) :
                      s[k] = sep /\ \A j \in 1..(k - 1) : s[j] # sep
         IN  <<SubSeq(s, 1, i - 1)>> \o split(SubSeq(s, i + 1, Len(s)), sep)
    ELSE <<s>>

(***************************************************************************)
(* convert_to_seconds                                                      *)
(***************************************************************************)
\* A slip in the hours term of line 77.
ThreePartsMinutes(parts) == parts[1] * 60 + parts[2] * 60 + parts[3]

ThreeParts(parts) == parts[1] * 3600 + parts[2] * 60 + parts[3]

TwoParts(parts) == parts[1] * 60 + parts[2]

convert_to_seconds(s) ==
    LET strs == split(s, ":")
    IN  IF \E i \in 1..Len(strs) : ~float(strs[i]).ok
        THEN [ok |-> FALSE, value |-> 0]
        ELSE LET parts == [i \in 1..Len(strs) |-> float(strs[i]).value]
             IN  [ok |-> TRUE,
                  value |-> IF Len(parts) = 3 THEN ThreeParts(parts)
                            ELSE IF Len(parts) = 2 THEN TwoParts(parts)
                            ELSE parts[1]]

(***************************************************************************)
(* parse_text_file                                                         *)
(***************************************************************************)
ParseError == [ok |-> FALSE, texts |-> <<>>]

\* The test of line 25, evaluated left to right: row[0] raises IndexError
\* on an empty row before "not row" is looked at.
SkipTest(row) ==
    IF Len(row) = 0
    THEN [raised |-> TRUE, skip |-> FALSE]
    ELSE [raised |-> FALSE, skip |-> startswith(row[1], "#") \/ Len(row) = 0]

\* A parser that drops a row it cannot read instead of raising.
RowEntryLenient(row) ==
    IF Len(row) # 7 THEN [ok |-> TRUE, entry |-> <<>>]
    ELSE IF ~int(row[4]).ok \/ ~int(row[5]).ok \/ ~int(row[7]).ok
    THEN [ok |-> TRUE, entry |-> <<>>]
    ELSE [ok |-> TRUE,
          entry |-> <<[start_time |-> row[1], end_time |-> row[2],
                       text |-> row[3],
                       position |-> <<int(row[4]).value, int(row[5]).value>>,
                       font |-> row[6], font_size |-> int(row[7]).value]>>]

\* Lines 27-35: unpack exactly 7 fields, coerce x, y and size.
RowEntry(row) ==
    IF Len(row) # 7 THEN [ok |-> FALSE, entry |-> <<>>]
    ELSE IF ~int(row[4]).ok \/ ~int(row[5]).ok \/ ~int(row[7]).ok
    THEN [ok |-> FALSE, entry |-> <<>>]
    ELSE [ok |-> TRUE,
          entry |-> <<[start_time |-> row[1], end_time |-> row[2],
                       text |-> row[3],
                       position |-> <<int(row[4]).value, int(row[5]).value>>,
                       font |-> row[6], font_size |-> int(row[7]).value]>>]

RECURSIVE ParseRows(_)
ParseRows(rows) ==
    IF rows = <<>> THEN [ok |-> TRUE, texts |-> <<>>]
    ELSE LET row == Head(rows)
             t == SkipTest(row)
         IN  IF t.raised THEN ParseError
             ELSE IF t.skip THEN ParseRows(Tail(rows))
             ELSE IF ~RowEntry(row).ok THEN ParseError
             ELSE LET rest == ParseRows(Tail(rows))
                  IN  IF rest.ok
                      THEN [ok |-> TRUE, texts |-> RowEntry(row).entry \o rest.texts]
                      ELSE ParseError

\* file = [exists, rows]; open() raises when the file cannot be opened.
parse_text_file(file) ==
    IF ~file.exists THEN ParseError ELSE ParseRows(file.rows)

(***************************************************************************)
(* Paths and the file system                                               *)
(***************************************************************************)
UserPath(name) == <<"cwd", name, -1>>

\* os.path.join(tmpdirname, "temp.mp4")
TempMp4 == <<"tmp", "temp.mp4", -1>>

\* os.path.join(tmpdirname, f"text_{idx}.txt")
TextPath(i) == <<"tmp", "text_", i>>

\* ffmpeg told to write over the file it reads.
InPlaceDestination(i) == temp_video

\* f"{tmpdirname}/temp_{idx}.mp4", the destination handed to ffmpeg
Destination(i) == <<"tmp", "temp_", i>>

\* The reassignment of line 134 left out.
StaleWorkingVideo(i) == temp_video

\* f"{tmpdirname}/temp_{idx}.mp4", the path temp_video is reassigned to
NextWorkingVideo(i) == <<"tmp", "temp_", i>>

Unset == <<"unset", "", -1>>

Video(base, overlays) ==
    [kind |-> "video", base |-> base, overlays |-> overlays, text |-> <<>>]

TextFile(text) ==
    [kind |-> "text", base |-> "", overlays |-> <<>>, text |-> text]

WriteFile(f, p, c) == [q \in DOMAIN f \cup {p} |-> IF q = p THEN c ELSE f[q]]

InTmp(p) == p[1] = "tmp"

\* A temporary directory that nothing removes (tempfile.mkdtemp).
NoCleanup(f) == f

\* Leaving the "with tempfile.TemporaryDirectory()" block, by any route,
\* removes the directory and everything in it.
Cleanup(f) == [q \in {p \in DOMAIN f : ~InTmp(p)} |-> f[q]]

Cp(src, dst, ok) == [tool |-> "cp", src |-> src, dst |-> dst, idx |-> -1, ok |-> ok]

Ffmpeg(cmd, i, ok) ==
    [tool |-> "ffmpeg", src |-> cmd.input, dst |-> cmd.output, idx |-> i, ok |-> ok]

(***************************************************************************)
(* generate_ffmpeg_command and the effect of the command it builds         *)
(***************************************************************************)
\* A command builder that lets an unparsable timestamp through as 0.
generate_unchecked_command(input_video, text_file, text_dict, output_video) ==
    LET start_time_seconds == convert_to_seconds(text_dict.start_time)
        end_time_seconds == convert_to_seconds(text_dict.end_time)
    IN  [ok |-> TRUE,
         input |-> input_video,
         textfile |-> text_file,
         fontfile |-> text_dict.font,
         x |-> text_dict.position[1],
         y |-> text_dict.position[2],
         fontsize |-> text_dict.font_size,
         from |-> start_time_seconds.value,
         to |-> end_time_seconds.value,
         output |-> output_video]

generate_ffmpeg_command(input_video, text_file, text_dict, output_video) ==
    LET start_time_seconds == convert_to_seconds(text_dict.start_time)
        end_time_seconds == convert_to_seconds(text_dict.end_time)
    IN  [ok |-> start_time_seconds.ok /\ end_time_seconds.ok,
         input |-> input_video,
         textfile |-> text_file,
         fontfile |-> text_dict.font,
         x |-> text_dict.position[1],
         y |-> text_dict.position[2],
         fontsize |-> text_dict.font_size,
         from |-> start_time_seconds.value,
         to |-> end_time_seconds.value,
         output |-> output_video]

\* What one drawtext filter draws: the text of the text file, in the window.
Drawn(f, cmd) ==
    [text |-> f[cmd.textfile].text, x |-> cmd.x, y |-> cmd.y,
     font |-> cmd.fontfile, fontsize |-> cmd.fontsize,
     from |-> cmd.from, to |-> cmd.to]

\* A successful "ffmpeg -i input -filter:v drawtext=... output".
RunFfmpeg(f, cmd) ==
    WriteFile(f, cmd.output,
              Video(f[cmd.input].base, Append(f[cmd.input].overlays, Drawn(f, cmd))))

(***************************************************************************)
(* Instruction files of the model                                          *)
(***************************************************************************)
GoodRowA ==
    << <<"0">>, <<"5">>, <<"A">>, <<"1", "0">>, <<"2", "0">>, <<"F">>, <<"2", "4">> >>

GoodRowB ==
    << <<"0", "2", ":", "3", "0">>, <<"1", ":", "0", "2", ":", "0", "3">>, <<"B">>,
       <<"-", "1">>, <<"0">>, <<"G">>, <<"8">> >>

BadTimeRow ==
    << <<"1">>, <<"x">>, <<"C">>, <<"1">>, <<"2">>, <<"F">>, <<"9">> >>

ShortRow ==
    << <<"0">>, <<"5">>, <<"D">>, <<"1">>, <<"2">>, <<"F">> >>

LongRow ==
    << <<"0">>, <<"5">>, <<"E">>, <<"1">>, <<"2">>, <<"F">>, <<"9">>, <<"9">> >>

NonIntRow ==
    << <<"0">>, <<"5">>, <<"H">>, <<"a">>, <<"2">>, <<"F">>, <<"9">> >>

CommentRow == << <<"#", "c">> >>

CommentedOutRow ==
    << <<"#", "0">>, <<"5">>, <<"I">>, <<"a">>, <<"2">>, <<"F">>, <<"9">> >>

EmptyRow == <<>>

RowPool ==
    {GoodRowA, GoodRowB, BadTimeRow, ShortRow, LongRow, NonIntRow,
     CommentRow, CommentedOutRow, EmptyRow}

RowSeqs == UNION {[1..n -> RowPool] : n \in 0..MaxRows}

TextFiles ==
    {[exists |-> FALSE, rows |-> <<>>]} \cup {[exists |-> TRUE, rows |-> r] : r \in RowSeqs}

Orig == Video("orig", <<>>)

Old == Video("old", <<>>)

InitialFs(a, outExists) ==
    [p \in {a.input_video} \cup (IF outExists THEN {a.output_video} ELSE {}) |->
        IF p = a.input_video THEN Orig ELSE Old]

(***************************************************************************)
(* add-text-to-vid.py: main()                                              *)
(***************************************************************************)
OverlayInit ==
    /\ args \in [input_video : {UserPath("in.mp4")},
                 text_file : TextFiles,
                 output_video : {UserPath("out.mp4"), UserPath("in.mp4")}]
    /\ \E outExists \in BOOLEAN : fs = InitialFs(args, outExists)
    /\ fs0 = fs
    /\ pc = "parse"
    /\ texts = <<>>
    /\ tmpdir = "none"
    /\ temp_video = Unset
    /\ idx = 0
    /\ log = <<>>
    /\ exit_status = {}

OverlayIdle ==
    /\ args = [input_video |-> Unset, text_file |-> [exists |-> FALSE, rows |-> <<>>],
               output_video |-> Unset]
    /\ fs = <<>>
    /\ fs0 = <<>>
    /\ pc = "idle"
    /\ texts = <<>>
    /\ tmpdir = "none"
    /\ temp_video = Unset
    /\ idx = 0
    /\ log = <<>>
    /\ exit_status = {}

\* Lines 105-109: parse, or log the error and return.
Parse ==
    /\ pc = "parse"
    /\ LET r == parse_text_file(args.text_file)
       IN  IF r.ok
           THEN /\ texts' = r.texts
                /\ pc' = "copy"
                /\ UNCHANGED exit_status
           ELSE /\ texts' = <<>>
                /\ pc' = "parse_error"
                /\ exit_status' = {0}
    /\ UNCHANGED <<args, fs0, fs, tmpdir, temp_video, idx, log, pvars, tvars>>

\* Lines 111-115: create the temporary directory, copy the input into it.
CopySource ==
    /\ pc = "copy"
    /\ tmpdir' = "live"
    /\ fs' = WriteFile(fs, TempMp4, fs[args.input_video])
    /\ temp_video' = TempMp4
    /\ log' = Append(log, Cp(args.input_video, TempMp4, TRUE))
    /\ idx' = 0
    /\ pc' = "loop"
    /\ UNCHANGED <<args, fs0, texts, exit_status, pvars, tvars>>

\* Lines 116-118: cp fails, RuntimeError leaves the with block and main().
CopySourceFails ==
    /\ pc = "copy"
    /\ log' = Append(log, Cp(args.input_video, TempMp4, FALSE))
    /\ fs' = Cleanup(fs)
    /\ tmpdir' = "removed"
    /\ pc' = "copy_failed"
    /\ exit_status' = {1}
    /\ UNCHANGED <<args, fs0, texts, temp_video, idx, pvars, tvars>>

\* Lines 122-127 of one iteration: the text file and the command.
TextWritten == WriteFile(fs, TextPath(idx), TextFile(texts[idx + 1].text))

Command ==
    generate_ffmpeg_command(temp_video, TextPath(idx), texts[idx + 1], Destination(idx))

\* Lines 120-134, ffmpeg succeeds: the destination becomes the working video.
ApplyOverlay ==
    /\ pc = "loop"
    /\ idx < Len(texts)
    /\ Command.ok
    /\ fs' = RunFfmpeg(TextWritten, Command)
    /\ log' = Append(log, Ffmpeg(Command, idx, TRUE))
    /\ temp_video' = NextWorkingVideo(idx)
    /\ idx' = idx + 1
    /\ UNCHANGED <<args, fs0, pc, texts, tmpdir, exit_status, pvars, tvars>>

\* A handler that logs the failure and goes on with the next overlay.
ApplyOverlaySkipsFailure ==
    /\ pc = "loop"
    /\ idx < Len(texts)
    /\ Command.ok
    /\ log' = Append(log, Ffmpeg(Command, idx, FALSE))
    /\ fs' = TextWritten
    /\ idx' = idx + 1
    /\ UNCHANGED <<args, fs0, pc, texts, tmpdir, temp_video, exit_status, pvars, tvars>>

\* Lines 128-132, ffmpeg exits non-zero: log the error and return.
ApplyOverlayFails ==
    /\ pc = "loop"
    /\ idx < Len(texts)
    /\ Command.ok
    /\ log' = Append(log, Ffmpeg(Command, idx, FALSE))
    /\ fs' = Cleanup(TextWritten)
    /\ tmpdir' = "removed"
    /\ pc' = "ffmpeg_failed"
    /\ exit_status' = {0}
    /\ UNCHANGED <<args, fs0, texts, temp_video, idx, pvars, tvars>>

\* Line 127 raises ValueError (float() in convert_to_seconds); nothing in
\* main() catches it, so it leaves the with block and ends the process.
CommandRaises ==
    /\ pc = "loop"
    /\ idx < Len(texts)
    /\ ~Command.ok
    /\ fs' = Cleanup(TextWritten)
    /\ tmpdir' = "removed"
    /\ pc' = "exception"
    /\ exit_status' = {1}
    /\ UNCHANGED <<args, fs0, texts, temp_video, idx, log, pvars, tvars>>

\* Lines 136-143: copy the working video to the output path.
FinalCopy ==
    /\ pc = "loop"
    /\ idx = Len(texts)
    /\ log' = Append(log, Cp(temp_video, args.output_video, TRUE))
    /\ fs' = Cleanup(WriteFile(fs, args.output_video, fs[temp_video]))
    /\ tmpdir' = "removed"
    /\ pc' = "success"
    /\ exit_status' = {0}
    /\ UNCHANGED <<args, fs0, texts, temp_video, idx, pvars, tvars>>

\* Lines 139-141: the final cp fails, RuntimeError ends the process.
FinalCopyFails ==
    /\ pc = "loop"
    /\ idx = Len(texts)
    /\ log' = Append(log, Cp(temp_video, args.output_video, FALSE))
    /\ fs' = Cleanup(fs)
    /\ tmpdir' = "removed"
    /\ pc' = "final_copy_failed"
    /\ exit_status' = {1}
    /\ UNCHANGED <<args, fs0, texts, temp_video, idx, pvars, tvars>>

(***************************************************************************)
(* preview-fonts.py                                                        *)
(***************************************************************************)
endswith(s, suffix) ==
    Len(s) >= Len(suffix) /\ SubSeq(s, Len(s) - Len(suffix) + 1, Len(s)) = suffix

replace(s, old, new) == [i \in 1..Len(s) |-> IF s[i] = old THEN new ELSE s[i]]

FontSuffixes == {<<".", "t", "t", "f">>, <<".", "o", "t", "f">>, <<".", "t", "t", "c">>}

IsFontFile(file) == \E suffix \in FontSuffixes : endswith(file, suffix)

\* The generator yields the files with a font extension, in walk order.
list_fonts(files) == SelectSeq(files, IsFontFile)

\* Lines 14-19 and 33: the display name and the output file of one font.
PreviewCommand(font) ==
    [font |-> font,
     font_name |-> split(font, ".")[1],
     output |-> replace(font, " ", "_") \o <<".", "m", "p", "4">>]

FilePool ==
    {<<"a", ".", "t", "t", "f">>, <<"b", " ", "c", ".", "o", "t", "f">>,
     <<"d", ".", "t", "t", "c">>, <<"n", ".", "t", "x", "t">>, <<"t", "t", "f">>}

PreviewInit ==
    /\ font_files \in UNION {[1..n -> FilePool] : n \in 0..MaxFontFiles}
    /\ ppc = "loop"
    /\ pidx = 0
    /\ plog = <<>>
    /\ printed = <<>>
    /\ pexit = {}

PreviewIdle ==
    /\ font_files = <<>>
    /\ ppc = "idle"
    /\ pidx = 0
    /\ plog = <<>>
    /\ printed = <<>>
    /\ pexit = {}

CurrentFont == list_fonts(font_files)[pidx + 1]

\* Lines 32-35 with ffmpeg succeeding in generate_preview_video.
Preview ==
    /\ ppc = "loop"
    /\ pidx < Len(list_fonts(font_files))
    /\ plog' = Append(plog, [cmd |-> PreviewCommand(CurrentFont), ok |-> TRUE])
    /\ printed' = Append(printed, [line |-> "Created", font |-> CurrentFont])
    /\ pidx' = pidx + 1
    /\ UNCHANGED <<font_files, ppc, pexit, ovars, tvars>>

\* A failure that is not caught: the exception ends main().
PreviewFailsAborts ==
    /\ ppc = "loop"
    /\ pidx < Len(list_fonts(font_files))
    /\ plog' = Append(plog, [cmd |-> PreviewCommand(CurrentFont), ok |-> FALSE])
    /\ ppc' = "done"
    /\ pexit' = {1}
    /\ UNCHANGED <<font_files, pidx, printed, ovars, tvars>>

\* Lines 21-24: CalledProcessError is caught and printed; main() goes on.
PreviewFails ==
    /\ ppc = "loop"
    /\ pidx < Len(list_fonts(font_files))
    /\ plog' = Append(plog, [cmd |-> PreviewCommand(CurrentFont), ok |-> FALSE])
    /\ printed' = printed \o <<[line |-> "Failed", font |-> CurrentFont],
                               [line |-> "Created", font |-> CurrentFont]>>
    /\ pidx' = pidx + 1
    /\ UNCHANGED <<font_files, ppc, pexit, ovars, tvars>>

\* The generator is exhausted: main() returns.
PreviewDone ==
    /\ ppc = "loop"
    /\ pidx = Len(list_fonts(font_files))
    /\ ppc' = "done"
    /\ pexit' = {0}
    /\ UNCHANGED <<font_files, pidx, plog, printed, ovars, tvars>>

(***************************************************************************)
(* Calls of convert_to_seconds                                             *)
(***************************************************************************)
TimeAlphabet == {"0", "1", "2", ":", "x"}

TimeExamples ==
    {<<"0", "1", ":", "0", "2", ":", "0", "3">>, <<"0", "2", ":", "3", "0">>,
     <<"4", "5">>, <<"-", "1", ":", "3", "0">>, <<"1", ":", "2", ":", "3", ":", "4">>}

TimeStrings ==
    TimeExamples \cup UNION {[1..n -> TimeAlphabet] : n \in 0..MaxTimeLen}

TimeInit ==
    /\ time_str \in TimeStrings
    /\ tpc = "call"
    /\ tresult = [ok |-> FALSE, value |-> 0]

TimeIdle ==
    /\ time_str = <<>>
    /\ tpc = "idle"
    /\ tresult = [ok |-> FALSE, value |-> 0]

Convert ==
    /\ tpc = "call"
    /\ tresult' = convert_to_seconds(time_str)
    /\ tpc' = "returned"
    /\ UNCHANGED <<time_str, ovars, pvars>>

(***************************************************************************)
(* Specifications                                                          *)
(***************************************************************************)
Init == OverlayInit /\ PreviewIdle /\ TimeIdle

Next ==
    \/ Parse
    \/ CopySource
    \/ CopySourceFails
    \/ ApplyOverlay
    \/ ApplyOverlayFails
    \/ CommandRaises
    \/ FinalCopy
    \/ FinalCopyFails

Spec == Init /\ [][Next]_vars

PreviewStart == OverlayIdle /\ PreviewInit /\ TimeIdle

PreviewNext == Preview \/ PreviewFails \/ PreviewDone

PreviewSpec == PreviewStart /\ [][PreviewNext]_vars

TimeStart == OverlayIdle /\ PreviewIdle /\ TimeInit

TimeNext == Convert

TimeSpec == TimeStart /\ [][TimeNext]_vars

(***************************************************************************)
(* Properties                                                              *)
(***************************************************************************)
IsFfmpeg(e) == e.tool = "ffmpeg"

FfmpegCalls == SelectSeq(log, IsFfmpeg)

Exited == exit_status # {}

BadTimestamp(t) ==
    ~convert_to_seconds(t.start_time).ok \/ ~convert_to_seconds(t.end_time).ok

HasBadTimestamp == \E i \in 1..Len(texts) : BadTimestamp(texts[i])

\* What the overlay of entry t must look like in the finished video.
Expected(t) ==
    [text |-> t.text, x |-> t.position[1], y |-> t.position[2],
     font |-> t.font, fontsize |-> t.font_size,
     from |-> convert_to_seconds(t.start_time).value,
     to |-> convert_to_seconds(t.end_time).value]

OutputUntouched ==
    /\ (args.output_video \in DOMAIN fs) = (args.output_video \in DOMAIN fs0)
    /\ args.output_video \in DOMAIN fs => fs[args.output_video] = fs0[args.output_video]
    /\ \A k \in 1..Len(log) : log[k].dst # args.output_video

IsComment(row) == Len(row) > 0 /\ Len(row[1]) > 0 /\ row[1][1] = "#"

WellFormed(row) ==
    /\ Len(row) = 7
    /\ int(row[4]).ok /\ int(row[5]).ok /\ int(row[7]).ok

Skipped(row) == IsComment(row) \/ row = <<>>

Kept(row) == ~Skipped(row)

\* C1: a run that succeeds has made exactly one ffmpeg invocation per parsed
\* entry, in the order of the entries; the first reads the temporary copy of
\* the input, each later one reads the destination of the one before it, and
\* the output path holds a copy of the last destination (of the temporary
\* copy when there is no entry): the input with every overlay drawn in order.
ChainedInvocations ==
    LET calls == FfmpegCalls
    IN  /\ \A k \in 1..Len(calls) :
              /\ calls[k].idx = k - 1
              /\ calls[k].src = IF k = 1 THEN TempMp4 ELSE calls[k - 1].dst
        /\ pc = "success" =>
              /\ Len(calls) = Len(texts)
              /\ \A k \in 1..Len(calls) : calls[k].ok
              /\ log = <<Cp(args.input_video, TempMp4, TRUE)>> \o calls
                       \o <<Cp(IF Len(calls) = 0 THEN TempMp4 ELSE calls[Len(calls)].dst,
                               args.output_video, TRUE)>>
              /\ fs[args.output_video] =
                     Video("orig", [k \in 1..Len(texts) |-> Expected(texts[k])])
              /\ LET kept == SelectSeq(args.text_file.rows, Kept)
                 IN  /\ Len(kept) = Len(texts)
                     /\ \A k \in 1..Len(kept) :
                            /\ texts[k].text = kept[k][3]
                            /\ texts[k].start_time = kept[k][1]

ChainedInvocationsWitness ==
    /\ pc = "success"
    /\ Len(FfmpegCalls) >= 2
    /\ texts[1] # texts[2]

\* C2: a failed ffmpeg invocation is the last external invocation of the run,
\* and the output path is neither created nor overwritten in that run.
FailureStopsRun ==
    \A k \in 1..Len(log) :
        (log[k].tool = "ffmpeg" /\ ~log[k].ok) =>
            /\ k = Len(log)
            /\ pc = "ffmpeg_failed"
            /\ OutputUntouched

FailureStopsRunWitness ==
    /\ pc = "ffmpeg_failed"
    /\ Len(FfmpegCalls) = 2
    /\ Len(texts) = 3
    /\ args.output_video \in DOMAIN fs0

\* C3: the exit status is 0 when the run succeeds and non-zero when parsing
\* fails or an ffmpeg invocation fails.
ExitStatusReportsFailure ==
    /\ pc = "success" => exit_status = {0}
    /\ pc \in {"parse_error", "ffmpeg_failed"} => (Exited /\ 0 \notin exit_status)

\* C4: comment rows and empty rows contribute no entry, and the remaining
\* 7-field rows appear in the parsed sequence in file order.
SkippedRowsContributeNothing ==
    LET rows == args.text_file.rows
        kept == SelectSeq(rows, Kept)
    IN  (/\ pc \notin {"parse", "idle"}
         /\ args.text_file.exists
         /\ \A i \in 1..Len(kept) : WellFormed(kept[i])) =>
            /\ pc # "parse_error"
            /\ texts = [i \in 1..Len(kept) |-> RowEntry(kept[i]).entry[1]]

Malformed(row) == ~IsComment(row) /\ ~WellFormed(row)

HasMalformedRow ==
    \E i \in 1..Len(args.text_file.rows) : Malformed(args.text_file.rows[i])

\* C5: with a malformed non-comment row anywhere in the file the run ends
\* right after parsing: no temporary directory, no copy, no ffmpeg, no entry
\* of the rows that did parse, and the file system as it was.
MalformedRowAborts ==
    (pc # "parse" /\ HasMalformedRow) =>
        /\ pc = "parse_error"
        /\ log = <<>>
        /\ texts = <<>>
        /\ tmpdir = "none"
        /\ fs = fs0

MalformedRowAbortsWitness ==
    /\ pc = "parse_error"
    /\ args.text_file.rows = <<GoodRowA, GoodRowB, NonIntRow>>

\* C6 as stated: with a bad timestamp in some entry, no external invocation
\* is ever made.
BadTimestampAbortsBeforeInvocations == HasBadTimestamp => log = <<>>

\* C6 as amended: a bad timestamp in entry k is fatal (ValueError, exit
\* status 1, output path untouched) but is found only when the command of
\* entry k is built: the input has been copied and entries 0..k-1 have had
\* their ffmpeg invocation; entry k and the later ones never get one.
BadTimestampAbortsAtItsRow ==
    /\ pc = "exception" =>
          /\ BadTimestamp(texts[idx + 1])
          /\ \A i \in 1..idx : ~BadTimestamp(texts[i])
          /\ Len(log) = idx + 1
          /\ log[1] = Cp(args.input_video, TempMp4, TRUE)
          /\ \A k \in 1..idx : IsFfmpeg(log[k + 1]) /\ log[k + 1].idx = k - 1 /\ log[k + 1].ok
          /\ exit_status = {1}
    /\ HasBadTimestamp =>
          /\ pc # "success"
          /\ OutputUntouched
          /\ \A k \in 1..Len(log) : \A i \in 1..Len(texts) :
                 (IsFfmpeg(log[k]) /\ BadTimestamp(texts[i])) => log[k].idx < i - 1

BadTimestampWitness ==
    /\ pc = "exception"
    /\ idx = 2
    /\ Len(FfmpegCalls) = 2

FailedCall(c) == ~c.ok

FailedLine(l) == l.line = "Failed"

\* C7: the preview tool makes exactly one ffmpeg invocation per enumerated
\* font, in order, whichever of them fail; each failure is printed; the run
\* exits with status 0.
OnePreviewPerFont ==
    LET fonts == list_fonts(font_files)
    IN  /\ Len(plog) = pidx
        /\ Len(plog) <= Len(fonts)
        /\ \A i \in 1..Len(plog) : plog[i].cmd.font = fonts[i]
        /\ Len(SelectSeq(printed, FailedLine)) = Len(SelectSeq(plog, FailedCall))
        /\ ppc = "done" => (Len(plog) = Len(fonts) /\ pexit = {0})

OnePreviewPerFontWitness ==
    /\ ppc = "done"
    /\ Len(plog) = 3
    /\ ~plog[1].ok
    /\ plog[2].ok
    /\ ~plog[3].ok

\* C8: however the run ends, the temporary directory and every file in it
\* are gone when it has ended.
TempDirReleased ==
    /\ Exited => (tmpdir # "live" /\ \A p \in DOMAIN fs : ~InTmp(p))
    /\ pc \in {"copy_failed", "ffmpeg_failed", "exception", "final_copy_failed", "success"}
          => (Exited /\ tmpdir = "removed")

TempDirReleasedWitness ==
    /\ pc = "exception"
    /\ idx >= 1
    /\ tmpdir = "removed"

Colons == {i \in 1..Len(time_str) : time_str[i] = ":"}

Part(from, to) == SubSeq(time_str, from + 1, to - 1)

Numeric(s) == float(s).ok

Num(s) == float(s).value

\* C9: for 1 to 3 numeric parts, convert_to_seconds returns h*3600 + m*60 + s,
\* m*60 + s, or s.
SecondsFormula ==
    tpc = "returned" =>
        /\ (Colons = {} /\ Numeric(time_str)) =>
               tresult = [ok |-> TRUE, value |-> Num(time_str)]
        /\ \A i \in Colons :
               (Colons = {i} /\ Numeric(Part(0, i)) /\ Numeric(Part(i, Len(time_str) + 1))) =>
                   tresult = [ok |-> TRUE,
                              value |-> Num(Part(0, i)) * 60 + Num(Part(i, Len(time_str) + 1))]
        /\ \A i, j \in Colons :
               (/\ i < j
                /\ Colons = {i, j}
                /\ Numeric(Part(0, i))
                /\ Numeric(Part(i, j))
                /\ Numeric(Part(j, Len(time_str) + 1))) =>
                   tresult = [ok |-> TRUE,
                              value |-> Num(Part(0, i)) * 3600 + Num(Part(i, j)) * 60
                                            + Num(Part(j, Len(time_str) + 1))]
        /\ time_str = <<"0", "1", ":", "0", "2", ":", "0", "3">> => tresult.value = 3723
        /\ time_str = <<"0", "2", ":", "3", "0">> => tresult.value = 150
        /\ time_str = <<"4", "5">> => tresult.value = 45

SecondsFormulaWitness ==
    /\ tpc = "returned"
    /\ time_str = <<"0", "1", ":", "0", "2", ":", "0", "3">>
    /\ tresult = [ok |-> TRUE, value |-> 3723]

OkFfmpeg(e) == e.tool = "ffmpeg" /\ e.ok

OneWorkingVideo ==
    pc = "loop" => (temp_video \in DOMAIN fs /\ InTmp(temp_video) /\ fs[temp_video].kind = "video")

ReassignedOnSuccess ==
    LET done == SelectSeq(log, OkFfmpeg)
    IN  temp_video = IF Len(done) > 0 THEN done[Len(done)].dst
                     ELSE IF Len(log) > 0 /\ log[1].ok THEN TempMp4
                     ELSE Unset

NeverInPlace == \A k \in 1..Len(log) : IsFfmpeg(log[k]) => log[k].src # log[k].dst

\* C10 as stated: one working video, reassigned only after a successful
\* ffmpeg invocation and to its destination; no invocation reads and writes
\* the same path; no step of the run writes the input video's path.
WorkingVideoAndInputNeverWritten ==
    /\ OneWorkingVideo
    /\ ReassignedOnSuccess
    /\ NeverInPlace
    /\ \A k \in 1..Len(log) : log[k].dst # args.input_video

\* C10 as amended: the same, except that the final copy writes the input
\* video's path when the user names it as the output path; the initial copy
\* and the ffmpeg invocations never write it.
WorkingVideoAndInputWrittenOnlyAsOutput ==
    /\ OneWorkingVideo
    /\ ReassignedOnSuccess
    /\ NeverInPlace
    /\ \A k \in 1..Len(log) :
           log[k].dst = args.input_video =>
               /\ args.output_video = args.input_video
               /\ log[k].tool = "cp"
               /\ k = Len(log)
               /\ k > 1

WorkingVideoWitness ==
    /\ pc = "success"
    /\ args.output_video = args.input_video
    /\ Len(FfmpegCalls) >= 1
    /\ fs[args.input_video] # fs0[args.input_video]

====
